---------------------------- MODULE Spec2Model ----------------------------
(***************************************************************************)
(* Bufferless `flatten` decoding (serde-bufferless).                       *)
(*                                                                         *)
(* One decode call of FlattenDeserializer over a map-shaped source record: *)
(* the inner record's visitor drives FlattenMapAccess, which offers every  *)
(* text/bytes key to the KeyCapture before surfacing it, and              *)
(* FlattenVisitor::visit_map drains what the visitor left behind.          *)
(*                                                                         *)
(* Inputs of a decode call (chosen in Init, never changed afterwards):     *)
(*   src    the record the raw MapAccess presents, a sequence of entries   *)
(*   failAt where the raw source reports malformed data, if anywhere       *)
(*   plan   the behaviour of the inner record's visitor                    *)
(* The capture is the one of tests/test.rs (fields `before`, `after`), the *)
(* inner record its `Inner` struct.                                        *)
(***************************************************************************)
EXTENDS Naturals, Sequences, FiniteSets

\* ------------------------------------------------------------------ bounds

\* longest source record
MaxLen == 3
\* most next-key calls the inner visitor makes after it was told end-of-data
MaxRepoll == 1

\* ------------------------------------------------------------ input universe

\* The fields of `Outer` that its Capture has a slot for, and the fields of
\* the flattened `Inner`.
OuterFields == {"before", "after"}
InnerFields == {"integer", "string", "before"}

NoToken == "no_token"
Empty == "empty"
Default == "default"
NoFail == [kind |-> "none", idx |-> 0]
NoValue == [f \in InnerFields |-> "no_value"]
NoResult == [ok |-> FALSE, tag |-> "pending", why |-> "", at |-> 0, value |-> NoValue]
\* The Capture as Outer::deserialize creates it.
EmptyCapture == [f \in OuterFields |-> Empty]
\* Outer::deserialize has not returned.
NoOuter == [ok |-> FALSE, rule |-> "pending", why |-> "",
            fields |-> EmptyCapture, inner |-> NoValue]
NoRun == [run |-> 0, src |-> <<>>, result |-> NoResult, capture |-> EmptyCapture,
          inner |-> {}, trace |-> <<>>]

\* Key shapes whose visitor callback goes through send_to_capture
\* (visit_str .. visit_borrowed_bytes); every other shape goes to send_to_seed.
TextShapes == {"str", "string", "borrowed_str", "bytes", "byte_buf", "borrowed_bytes"}

\* The entry points forward_to_deserialize_any! lists in FlattenDeserializer ...
ForwardList ==
    {"bool", "i8", "i16", "i32", "i64", "i128", "u8", "u16", "u32", "u64", "u128",
     "f32", "f64", "char", "str", "string", "bytes", "byte_buf", "option", "unit",
     "unit_struct", "newtype_struct", "seq", "tuple", "tuple_struct", "map",
     "struct", "enum", "identifier"}
\* ... and in each of the forwarding deserializers of private.rs.
AdapterForwardList == ForwardList \cup {"ignored_any"}
\* Every decode entry point of a Deserializer.
EntryPoints == {"any"} \cup ForwardList \cup {"ignored_any"}

\* The visitor callbacks a source can invoke on a FlattenKeySeed, each named
\* by the shape it carries (visit_bool .. visit_enum).
KeyShapes ==
    {"bool", "i8", "i16", "i32", "i64", "i128", "u8", "u16", "u32", "u64", "u128",
     "f32", "f64", "char"}
    \cup TextShapes
    \cup {"none", "some", "unit", "newtype", "seq", "map", "enum"}

\* The forwarding deserializers of private.rs, each named by the one visitor
\* callback it makes: EnumDeserializer, NewtypeDeserializer, SomeDeserializer
\* and ByteBufDeserializer.
Adapters == {"enum", "newtype", "some", "byte_buf"}

StrKey(b) == [shape |-> "str", bytes |-> b]

\* The entries a source record is made of: both outer fields with a value each
\* field's slot type accepts (one named in text, one in binary), an outer
\* field with a value its slot type rejects, an inner field, a key nobody
\* declares, and a key that is not textual at all.
Entries ==
    { [key |-> StrKey("before"), val |-> "10.5"],
      [key |-> [shape |-> "bytes", bytes |-> "after"], val |-> "true"],
      [key |-> StrKey("after"), val |-> "10.5"],
      [key |-> StrKey("integer"), val |-> "10"],
      [key |-> StrKey("_1"), val |-> "1"],
      [key |-> [shape |-> "u64", bytes |-> "7"], val |-> "true"] }

Records == UNION { [1..n -> Entries] : n \in 0..MaxLen }

\* The raw source fails while producing key idx ("key", idx = Len+1 being the
\* place of the end marker), before handing value idx to the value seed
\* ("value"), or inside the deserializer handed to the value seed ("in_value").
Failures(s) ==
    {NoFail}
    \cup { [kind |-> "key", idx |-> i] : i \in 1..(Len(s) + 1) }
    \cup { [kind |-> k, idx |-> i] : k \in {"value", "in_value"}, i \in 1..Len(s) }

\* The inner visitor reads entries until it has `limit` of them or is told
\* end-of-data, asks `repoll` more times for a key after end-of-data, and
\* then returns a failure if `fails`, its value otherwise.
\* It asks FlattenDeserializer for `entry` (a derived struct: deserialize_struct)
\* and its key seed asks the key's deserializer for `keyEntry` (a derived field
\* identifier: deserialize_identifier).
Plans(s) ==
    { [limit |-> l, fails |-> f, repoll |-> r,
       entry |-> "struct", keyEntry |-> "identifier"] :
        l \in 0..(Len(s) + 1), f \in BOOLEAN, r \in 0..MaxRepoll }

\* Records that start with a key of any shape: every text and binary shape
\* with a name the capture claims and one it does not, every other shape once.
ShapeEntries ==
    { [key |-> [shape |-> s, bytes |-> b], val |-> "10.5"] :
        s \in TextShapes, b \in {"before", "_1"} }
    \cup { [key |-> [shape |-> s, bytes |-> "7"], val |-> "1"] :
             s \in KeyShapes \ TextShapes }

ShapeRecords ==
    {<<>>} \cup UNION { { <<e>> \o t : e \in ShapeEntries, t \in [1..n -> Entries] } :
                          n \in 0..(MaxLen - 1) }

\* Inner records of any kind over such a record: the derived struct with any
\* limit; over at most one entry, a record type that asks for any entry point;
\* over one key that reaches a forwarding deserializer of private.rs, a key
\* seed that asks for any entry point; and a key seed that asks for `any`.
ShapePlans(s) ==
    { [limit |-> l, fails |-> FALSE, repoll |-> 0,
       entry |-> "struct", keyEntry |-> "identifier"] : l \in 0..(Len(s) + 1) }
    \cup (IF Len(s) <= 1
          THEN { [limit |-> l, fails |-> f, repoll |-> 0,
                  entry |-> e, keyEntry |-> "identifier"] :
                    l \in {0, Len(s) + 1}, f \in BOOLEAN, e \in EntryPoints }
          ELSE {})
    \cup (IF Len(s) = 1
          THEN { [limit |-> 1, fails |-> FALSE, repoll |-> 0,
                  entry |-> "struct", keyEntry |-> k] :
                    k \in IF s[1].key.shape \in Adapters
                          THEN EntryPoints ELSE {"any"} }
          ELSE {})

\* ------------------------------------------------------------------ state

VARIABLES
    src,        \* the record the raw MapAccess presents
    failAt,     \* where the raw source fails
    plan,       \* the inner visitor's behaviour
    pc,         \* position in the decode call
    phase,      \* who drives FlattenMapAccess: "main" (inner visitor) or "drain"
    pos,        \* entries the raw MapAccess has produced keys for
    access,     \* FusedAccess.access: "Some" or "None"
    capture,    \* the KeyCapture's slots
    token,      \* the token of an Accepted key whose value is not yet stored
    lastKey,    \* what next_key_seed last returned to the driving visitor
    got,        \* entries the inner visitor has received
    polls,      \* next-key calls the inner visitor made after end-of-data
    value,      \* the inner visitor's return value, once it returned Ok
    result,     \* the decode call's result
    trace,      \* every call made on the raw MapAccess, the capture and the seeds
    first,      \* what an earlier decode call of the same record came to
    outer       \* what Outer::deserialize returns

vars == <<src, failAt, plan, pc, phase, pos, access, capture, token, lastKey,
          got, polls, value, result, trace, first, outer>>

\* what a decode call is given
input == <<src, failAt, plan, first>>

\* A call: which one, on which entry, how it came out, and (`cb`) what was
\* passed: the bytes given to try_send_key, the visitor callback a key seed
\* received.
EvCb(op, idx, res, cb) == [op |-> op, idx |-> idx, res |-> res, cb |-> cb]
Ev(op, idx, res) == EvCb(op, idx, res, "")


\* ------------------------------------------------- the capture (tests/test.rs)

\* A try_send_key whose match has a catch-all arm that claims the key.
try_send_key_greedy(bytes) == IF bytes = "after" THEN "after" ELSE "before"

\* Capture::try_send_key: the token of the outer field the key bytes name.
try_send_key(bytes) ==
    IF bytes = "before" THEN "before"
    ELSE IF bytes = "after" THEN "after"
    ELSE NoToken

\* Whether the slot type of `field` decodes `val`: `before` is an
\* Option<f32>, `after` an Option<bool>.
SlotAccepts(field, val) ==
    IF field = "before" THEN val \in {"10.5", "10", "1"} ELSE val = "true"

\* Capture::send_value: decode the value into the token's slot, or fail and
\* leave the slots as they were.
send_value(cap, tok, val) ==
    IF SlotAccepts(tok, val)
    THEN [ok |-> TRUE, cap |-> [cap EXCEPT ![tok] = val]]
    ELSE [ok |-> FALSE, cap |-> cap]

\* A FlattenValueSeed that hands the value over with the token of the other
\* field.
FlattenValueSeed_other_token(cap, tok, val) ==
    send_value(cap, IF tok = "before" THEN "after" ELSE "before", val)

\* FlattenValueSeed::deserialize: the value goes to the capture together with
\* the token the key was claimed with.
FlattenValueSeed_deserialize(cap, tok, val) == send_value(cap, tok, val)

\* ------------------------------------------------------ the raw MapAccess

\* What the raw cursor's next_key_seed answers at its current position.
RawNextKey ==
    IF failAt.kind = "key" /\ failAt.idx = pos + 1
    THEN [res |-> "err", idx |-> pos + 1]
    ELSE IF pos < Len(src)
    THEN [res |-> "some", idx |-> pos + 1]
    ELSE [res |-> "none", idx |-> 0]

\* What the raw cursor's next_value_seed does for the value of key i: "ok"
\* (the seed decodes the value), "value" (failure before the seed is run) or
\* "in_value" (the seed is run and the deserializer it is given fails).
RawNextValue(i) ==
    IF failAt.kind \in {"value", "in_value"} /\ failAt.idx = i
    THEN failAt.kind
    ELSE "ok"

\* --------------------------------------------------------- FusedAccess

\* A next_item that forgets to clear `access` on end-of-data.
next_item_unfused(acc, item) ==
    [access |-> "Some", res |-> item.res, idx |-> item.idx, invoked |-> TRUE]

\* A next_item that also drops the cursor when it reports a failure.
next_item_fuse_on_error(acc, item) ==
    IF acc = "None"
    THEN [access |-> "None", res |-> "none", idx |-> 0, invoked |-> FALSE]
    ELSE [access |-> IF item.res = "some" THEN "Some" ELSE "None",
          res |-> item.res, idx |-> item.idx, invoked |-> TRUE]

\* FusedAccess::next_item: `item` is what the wrapped cursor answers if asked.
next_item(acc, item) ==
    IF acc = "None"
    THEN [access |-> "None", res |-> "none", idx |-> 0, invoked |-> FALSE]
    ELSE [access |-> IF item.res = "none" THEN "None" ELSE "Some",
          res |-> item.res, idx |-> item.idx, invoked |-> TRUE]

\* A next_value_seed without the `expect`: it forwards whatever `access` is.
fused_next_value_unchecked(acc) == "forward"

\* FusedAccess::next_value_seed: forwards to the wrapped cursor, which must
\* still be there.
fused_next_value(acc) == IF acc = "None" THEN "panic" ELSE "forward"

\* --------------------------------------------------------- FlattenKeySeed

\* What a FlattenKeySeed makes of a key: the FlattenKeySeedOutcome (`tag`, and
\* the token of an Accepted key) and what the capture answered if it was asked
\* (`claim`: "token", "none" or "not_asked").

\* A forwarding deserializer that answers deserialize_ignored_any with
\* visit_unit.
Adapter_deserialize_skipping(a, entry) == IF entry = "ignored_any" THEN "unit" ELSE a

\* impl Deserializer for EnumDeserializer, NewtypeDeserializer,
\* SomeDeserializer, ByteBufDeserializer: deserialize_any makes the adapter's
\* callback, and every listed entry point is forwarded to deserialize_any.
Adapter_deserialize(a, entry) ==
    IF entry = "any" \/ entry \in AdapterForwardList THEN a ELSE "unimplemented"

\* The visitor callback a key seed receives when it asks the deserializer
\* FlattenKeySeed made of a `kind` value for `entry`: a forwarding
\* deserializer of private.rs answers as above, a value deserializer of serde
\* with the callback of its value.
KeyDeserializer_deserialize(kind, entry) ==
    IF kind \in Adapters THEN Adapter_deserialize(kind, entry) ELSE kind

\* FlattenKeySeed::send_to_seed: the key goes to the caller's key seed, as a
\* deserializer of the value the callback was given (`deser`).
send_to_seed(key) ==
    [tag |-> "Rejected", token |-> NoToken, claim |-> "not_asked", asked |-> "",
     deser |-> key.shape]

\* A send_to_capture that hands a key the capture has taken to the caller's
\* seed as well.
send_to_capture_both(key) ==
    [send_to_seed(key) EXCEPT
        !.claim = IF try_send_key(key.bytes) # NoToken THEN "token" ELSE "none",
        !.asked = key.bytes]

\* FlattenKeySeed::send_to_capture: the capture is asked first, with the
\* key's bytes (`key.as_ref()`).
send_to_capture(key) ==
    IF try_send_key(key.bytes) # NoToken
    THEN [tag |-> "Accepted", token |-> try_send_key(key.bytes), claim |-> "token",
          asked |-> key.bytes, deser |-> ""]
    ELSE [send_to_seed(key) EXCEPT !.claim = "none", !.asked = key.bytes]

\* A FlattenKeySeed whose binary callbacks go to the caller's seed unasked.
FlattenKeySeed_visit_text_only(key) ==
    IF key.shape \in {"str", "string", "borrowed_str"}
    THEN send_to_capture(key) ELSE send_to_seed(key)

\* A FlattenKeySeed that offers the capture every key, whatever its shape.
FlattenKeySeed_visit_all(key) == send_to_capture(key)

\* impl Visitor for FlattenKeySeed: the callback the key's shape selects.
\* visit_str .. visit_borrowed_bytes ask the capture; visit_none hands the
\* caller's seed `()`, as visit_unit does; every other callback hands it the
\* value it was given.
FlattenKeySeed_visit(key) ==
    IF key.shape \in TextShapes THEN send_to_capture(key)
    ELSE IF key.shape = "none" THEN send_to_seed([key EXCEPT !.shape = "unit"])
    ELSE send_to_seed(key)

\* A FlattenDeserializer that lists ignored_any among the forwarded entry
\* points.
FlattenDeserializer_deserialize_all_map(entry) == "deserialize_map"

\* impl Deserializer for FlattenDeserializer: deserialize_any asks the source
\* for a map, the listed entry points are forwarded to it, and
\* deserialize_ignored_any goes to the source as it is.
FlattenDeserializer_deserialize(entry) ==
    IF entry = "ignored_any" THEN "raw_ignored_any"
    ELSE IF entry = "any" \/ entry \in ForwardList THEN "deserialize_map"
    ELSE "unimplemented"

\* ------------------------------------------------------------- results

\* A failure: who reported it (`tag`), which one (`why`) and at which entry.
Failure(tag, why, at) ==
    [ok |-> FALSE, tag |-> tag, why |-> why, at |-> at, value |-> NoValue]
Success(v) == [ok |-> TRUE, tag |-> "value", why |-> "", at |-> 0, value |-> v]
\* The failure the raw source reports.
SourceError == Failure("source", failAt.kind, failAt.idx)

\* The entries the inner visitor was handed the value of, in order.
InnerEntries(tr) ==
    LET vals == SelectSeq(tr, LAMBDA e : e.op = "inner_value" /\ e.res = "ok")
    IN  [j \in 1..Len(vals) |-> vals[j].idx]

\* The `Inner` record built from what the visitor was handed: a declared field
\* holds the value delivered under its name, its default when none was.
InnerRecord(tr) ==
    LET got_ == InnerEntries(tr)
        hits(f) == { j \in 1..Len(got_) :
                        /\ src[got_[j]].key.shape \in TextShapes
                        /\ src[got_[j]].key.bytes = f }
        last(S) == CHOOSE j \in S : \A k \in S : k <= j
    IN  [f \in InnerFields |->
            IF hits(f) = {} THEN Default ELSE src[got_[last(hits(f))]].val]

\* A visit_map that returns the inner visitor's value without draining.
visit_map_after_no_drain(ok) == "done"

\* A visit_map that drains the map whatever the inner visitor returned.
visit_map_after_always_drain(ok) == "drain"

\* FlattenVisitor::visit_map after the inner visitor returned: its failure
\* ends the call, its value is kept while the map is drained.
visit_map_after(ok) == IF ok THEN "drain" ELSE "done"

\* A visit_map that throws the drain's result away, failure included.
visit_map_drained_swallow(r, v) == Success(v)

\* FlattenVisitor::visit_map at the end of the drain: `?` on the drain's
\* failure, the inner visitor's value otherwise.
visit_map_drained(r, v) == IF r.ok THEN Success(v) ELSE r

\* What a failure `r` met inside next_key_seed or next_value_seed makes the
\* decode call return: the inner visitor hands it on, and so does the drain.
Unwind(r) == IF phase = "drain" THEN visit_map_drained(r, value) ELSE r

\* -------------------------------------------------------------- Init

\* The state when Outer::deserialize has made its Capture and the
\* FlattenDeserializer.
Constructed ==
    /\ pc = "start"
    /\ phase = "main"
    /\ pos = 0
    /\ access = "Some"
    /\ capture = EmptyCapture
    /\ token = NoToken
    /\ lastKey = "none"
    /\ got = 0
    /\ polls = 0
    /\ value = NoValue
    /\ result = NoResult
    /\ trace = <<>>
    /\ first = NoRun
    /\ outer = NoOuter

Init ==
    /\ src \in Records
    /\ failAt \in Failures(src)
    /\ plan \in Plans(src)
    \* one thing at a time: a failing source is read by a visitor that reads
    \* nothing, one entry or everything, and only a visitor that reads
    \* everything and returns its value asks again after end-of-data
    /\ failAt # NoFail => (~plan.fails /\ plan.limit \in {0, 1, Len(src) + 1})
    /\ plan.repoll > 0 => (failAt = NoFail /\ ~plan.fails /\ plan.limit = Len(src) + 1)
    /\ Constructed

\* Records with a first key of any shape, inner records and key seeds that
\* ask for any entry point; the source is well-formed unless it is asked to
\* skip the record.
InitShapes ==
    /\ src \in ShapeRecords
    /\ plan \in ShapePlans(src)
    /\ failAt \in IF plan.entry = "ignored_any" /\ plan.limit = 0 /\ ~plan.fails
                  THEN Failures(src) ELSE {NoFail}
    /\ Constructed

\* ------------------------------------------------------------ actions

\* FlattenDeserializer::deserialize_any and the head of
\* FlattenVisitor::visit_map: the source is asked for a map, the map is fused
\* and wrapped, and the inner visitor is given the wrapper.
DeserializeAny ==
    /\ pc = "start"
    /\ FlattenDeserializer_deserialize(plan.entry) = "deserialize_map"
    /\ pc' = "visit"
    /\ UNCHANGED <<input, outer, phase, pos, access, capture, token, lastKey, got,
                   polls, value, result, trace>>

\* The inner visitor asks FlattenMapAccess for its next key.
InnerNextKey ==
    /\ pc = "visit" /\ phase = "main"
    /\ lastKey \in {"none", "end"}
    /\ got < plan.limit
    /\ lastKey = "end" => polls < plan.repoll
    /\ pc' = "next_key"
    /\ polls' = IF lastKey = "end" THEN polls + 1 ELSE polls
    /\ UNCHANGED <<input, outer, phase, pos, access, capture, token, lastKey, got,
                   value, result, trace>>

\* One turn of the loop of FlattenMapAccess::next_key_seed up to its match:
\* the fused map is asked for a key with a FlattenKeySeed, which asks the
\* capture and, when the capture does not want the key, the caller's seed.
NextKeySeed ==
    /\ pc = "next_key"
    /\ LET item == next_item(access, RawNextKey)
           some == item.res = "some"
           out  == IF some THEN FlattenKeySeed_visit(src[item.idx].key)
                   ELSE send_to_seed(StrKey(""))
           seed == IF phase = "main" THEN "inner_key" ELSE "ignored_key"
           \* IgnoredAny's map visitor reads keys as IgnoredAny
           entry == IF phase = "main" THEN plan.keyEntry ELSE "ignored_any"
           evs  == (IF item.invoked
                    THEN <<Ev("raw_key", item.idx, item.res)>> ELSE <<>>)
                   \o (IF some /\ out.claim # "not_asked"
                       THEN <<EvCb("claim", item.idx, out.claim, out.asked)>> ELSE <<>>)
                   \o (IF some /\ out.tag = "Rejected"
                       THEN <<EvCb(seed, item.idx, "ok",
                                 KeyDeserializer_deserialize(out.deser, entry))>>
                       ELSE <<>>)
                   \o <<Ev("fused_key", item.idx, item.res)>>
       IN  /\ access' = item.access
           /\ pos' = IF some THEN item.idx ELSE pos
           /\ trace' = trace \o evs
           /\ IF item.res = "err"
              THEN /\ result' = Unwind(SourceError)
                   /\ pc' = "done"
                   /\ UNCHANGED <<token, lastKey>>
              ELSE IF item.res = "none"
              THEN /\ lastKey' = "end"
                   /\ pc' = "visit"
                   /\ UNCHANGED <<token, result>>
              ELSE IF out.tag = "Rejected"
              THEN /\ lastKey' = "some"
                   /\ pc' = "visit"
                   /\ UNCHANGED <<token, result>>
              ELSE /\ token' = out.token
                   /\ pc' = "accepted"
                   /\ UNCHANGED <<lastKey, result>>
    /\ UNCHANGED <<input, outer, phase, capture, got, polls, value>>

\* An Accepted arm that spins without reading the value or asking for the
\* next key.
AcceptedValue_stuck ==
    /\ pc = "accepted"
    /\ UNCHANGED vars

\* An Accepted arm that goes on to the next key without reading the value.
AcceptedValue_no_store ==
    /\ pc = "accepted"
    /\ pc' = "next_key"
    /\ token' = NoToken
    /\ UNCHANGED <<input, outer, phase, pos, access, capture, lastKey, got, polls,
                   value, result, trace>>

\* An Accepted arm that drops the result of next_value_seed instead of `?`.
AcceptedValue_ignore_failure ==
    /\ pc = "accepted"
    /\ pc' = "next_key"
    /\ token' = NoToken
    /\ capture' = send_value(capture, token, src[pos].val).cap
    /\ trace' = trace \o
          <<Ev("raw_value", pos,
               IF send_value(capture, token, src[pos].val).ok THEN "ok" ELSE "err"),
            Ev("store", pos,
               IF send_value(capture, token, src[pos].val).ok THEN "ok" ELSE "err")>>
    /\ UNCHANGED <<input, outer, phase, pos, access, lastKey, got, polls, value, result>>

\* The Accepted arm of the loop: the value of the claimed key is read with a
\* FlattenValueSeed, which passes it to the capture with the token; then the
\* loop asks for the next key.
AcceptedValue ==
    /\ pc = "accepted"
    /\ LET rv == RawNextValue(pos)
           sv == FlattenValueSeed_deserialize(capture, token, src[pos].val)
       IN  IF fused_next_value(access) = "panic"
           THEN /\ result' = Unwind(Failure("panic", "expect", pos))
                /\ pc' = "done"
                /\ UNCHANGED <<capture, token, trace>>
           ELSE IF rv = "value"
           THEN /\ result' = Unwind(SourceError)
                /\ pc' = "done"
                /\ trace' = Append(trace, Ev("raw_value", pos, "err"))
                /\ UNCHANGED <<capture, token>>
           ELSE IF rv = "in_value"
           THEN /\ result' = Unwind(SourceError)
                /\ pc' = "done"
                /\ trace' = trace \o <<Ev("raw_value", pos, "err"),
                                        Ev("store", pos, "err")>>
                /\ UNCHANGED <<capture, token>>
           ELSE IF sv.ok
           THEN /\ capture' = sv.cap
                /\ token' = NoToken
                /\ pc' = "next_key"
                /\ trace' = trace \o <<Ev("raw_value", pos, "ok"),
                                        Ev("store", pos, "ok")>>
                /\ UNCHANGED result
           ELSE /\ result' = Unwind(Failure("capture", "invalid_type", pos))
                /\ pc' = "done"
                /\ trace' = trace \o <<Ev("raw_value", pos, "err"),
                                        Ev("store", pos, "err")>>
                /\ UNCHANGED <<capture, token>>
    /\ UNCHANGED <<input, outer, phase, pos, access, lastKey, got, polls, value>>

\* The inner visitor asks for the value of the key it was just given:
\* FlattenMapAccess::next_value_seed forwards its seed to the fused map.
InnerNextValue ==
    /\ pc = "visit" /\ phase = "main"
    /\ lastKey = "some"
    /\ LET rv == RawNextValue(pos)
       IN  IF fused_next_value(access) = "panic"
           THEN /\ result' = Unwind(Failure("panic", "expect", pos))
                /\ pc' = "done"
                /\ UNCHANGED <<lastKey, got, trace>>
           ELSE IF rv = "value"
           THEN /\ result' = Unwind(SourceError)
                /\ pc' = "done"
                /\ trace' = Append(trace, Ev("raw_value", pos, "err"))
                /\ UNCHANGED <<lastKey, got>>
           ELSE IF rv = "in_value"
           THEN /\ result' = Unwind(SourceError)
                /\ pc' = "done"
                /\ trace' = trace \o <<Ev("raw_value", pos, "err"),
                                        Ev("inner_value", pos, "err")>>
                /\ UNCHANGED <<lastKey, got>>
           ELSE /\ lastKey' = "none"
                /\ got' = got + 1
                /\ trace' = trace \o <<Ev("raw_value", pos, "ok"),
                                        Ev("inner_value", pos, "ok")>>
                /\ UNCHANGED <<pc, result>>
    /\ UNCHANGED <<input, outer, phase, pos, access, capture, token, polls, value>>

\* The inner visitor returns, and FlattenVisitor::visit_map goes on: `?` on
\* a failure, the drain on a value.
InnerReturn ==
    /\ pc = "visit" /\ phase = "main"
    /\ lastKey \in {"none", "end"}
    /\ got = plan.limit \/ (lastKey = "end" /\ polls = plan.repoll)
    /\ trace' = Append(trace, Ev("inner_return", pos,
                                  IF plan.fails THEN "err" ELSE "ok"))
    /\ IF visit_map_after(~plan.fails) = "drain"
       THEN /\ value' = InnerRecord(trace)
            /\ phase' = "drain"
            /\ lastKey' = "none"
            /\ UNCHANGED <<pc, result>>
       ELSE /\ result' = IF plan.fails THEN Failure("inner", "visitor", got)
                         ELSE Success(InnerRecord(trace))
            /\ pc' = "done"
            /\ UNCHANGED <<value, phase, lastKey>>
    /\ UNCHANGED <<input, outer, pos, access, capture, token, got, polls>>

\* The drain, IgnoredAny's visit_map over the same FlattenMapAccess: its
\* next_entry asks for a key ...
DrainNextKey ==
    /\ pc = "visit" /\ phase = "drain"
    /\ lastKey = "none"
    /\ pc' = "next_key"
    /\ UNCHANGED <<input, outer, phase, pos, access, capture, token, lastKey, got,
                   polls, value, result, trace>>

\* ... and, given one, for its value, which it throws away.
DrainNextValue ==
    /\ pc = "visit" /\ phase = "drain"
    /\ lastKey = "some"
    /\ LET rv == RawNextValue(pos)
       IN  IF fused_next_value(access) = "panic"
           THEN /\ result' = Unwind(Failure("panic", "expect", pos))
                /\ pc' = "done"
                /\ UNCHANGED <<lastKey, trace>>
           ELSE IF rv = "value"
           THEN /\ result' = Unwind(SourceError)
                /\ pc' = "done"
                /\ trace' = Append(trace, Ev("raw_value", pos, "err"))
                /\ UNCHANGED lastKey
           ELSE IF rv = "in_value"
           THEN /\ result' = Unwind(SourceError)
                /\ pc' = "done"
                /\ trace' = trace \o <<Ev("raw_value", pos, "err"),
                                        Ev("ignored_value", pos, "err")>>
                /\ UNCHANGED lastKey
           ELSE /\ lastKey' = "none"
                /\ trace' = trace \o <<Ev("raw_value", pos, "ok"),
                                        Ev("ignored_value", pos, "ok")>>
                /\ UNCHANGED <<pc, result>>
    /\ UNCHANGED <<input, outer, phase, pos, access, capture, token, got, polls, value>>

\* The drain was told end-of-data: visit_map returns the inner visitor's value.
DrainReturn ==
    /\ pc = "visit" /\ phase = "drain"
    /\ lastKey = "end"
    /\ result' = visit_map_drained(Success(NoValue), value)
    /\ pc' = "done"
    /\ UNCHANGED <<input, outer, phase, pos, access, capture, token, lastKey, got,
                   polls, value, trace>>

\* ...................................................... Outer::deserialize

\* Option::unwrap_or_default on a capture slot.
unwrap_or_default(slot) == IF slot = Empty THEN Default ELSE slot

\* An Outer::deserialize that never reports a missing field.
missing_field_none(cap) == NoToken

\* The field the `ok_or_else(missing_field)?` chain of examples/demo.rs stops
\* at: the first declared field whose slot is empty, NoToken when none is.
\* (The demo's fields `float` and `boolean` are `before` and `after` here.)
missing_field(cap) ==
    IF cap["before"] = Empty THEN "before"
    ELSE IF cap["after"] = Empty THEN "after"
    ELSE NoToken

\* What Outer::deserialize returns when the decode call failed (`?`).
OuterFailed(rule) ==
    [ok |-> FALSE, rule |-> rule, why |-> result.tag,
     fields |-> EmptyCapture, inner |-> NoValue]

\* Outer::deserialize of tests/test.rs after the decode call: both fields are
\* #[serde(default)], an empty slot becomes the default.
OuterDeserialize ==
    /\ pc = "done" /\ result.tag # "panic"
    /\ pc' = "returned"
    /\ outer' = IF ~result.ok THEN OuterFailed("default")
                ELSE [ok |-> TRUE, rule |-> "default", why |-> "",
                      fields |-> [f \in OuterFields |-> unwrap_or_default(capture[f])],
                      inner |-> result.value]
    /\ UNCHANGED <<input, phase, pos, access, capture, token, lastKey, got,
                   polls, value, result, trace>>

\* Outer::deserialize of examples/demo.rs after the decode call: no field has
\* a default, an empty slot is a missing-field failure.
OuterDeserializeRequired ==
    /\ pc = "done" /\ result.tag # "panic"
    /\ pc' = "returned"
    /\ outer' = IF ~result.ok THEN OuterFailed("required")
                ELSE IF missing_field(capture) # NoToken
                THEN [ok |-> FALSE, rule |-> "required", why |-> missing_field(capture),
                      fields |-> EmptyCapture, inner |-> NoValue]
                ELSE [ok |-> TRUE, rule |-> "required", why |-> "",
                      fields |-> capture, inner |-> result.value]
    /\ UNCHANGED <<input, phase, pos, access, capture, token, lastKey, got,
                   polls, value, result, trace>>

\* FlattenDeserializer::deserialize_ignored_any: the request goes to the
\* source, which skips the record and answers the inner visitor itself; no
\* FlattenVisitor is made and the capture is not involved.
DeserializeIgnoredAny ==
    /\ pc = "start"
    /\ FlattenDeserializer_deserialize(plan.entry) = "raw_ignored_any"
    /\ trace' = <<Ev("raw_ignored_any", 0, IF failAt = NoFail THEN "ok" ELSE "err")>>
    /\ result' = IF failAt # NoFail THEN SourceError
                  ELSE IF plan.fails THEN Failure("inner", "visitor", 0)
                  ELSE Success(NoValue)
    /\ pc' = "done"
    /\ UNCHANGED <<input, outer, phase, pos, access, capture, token, lastKey,
                   got, polls, value>>

Next ==
    \/ DeserializeAny
    \/ InnerNextKey
    \/ NextKeySeed
    \/ AcceptedValue
    \/ InnerNextValue
    \/ InnerReturn
    \/ DrainNextKey
    \/ DrainNextValue
    \/ DrainReturn
    \/ OuterDeserialize
    \/ OuterDeserializeRequired

Spec == Init /\ [][Next]_vars

\* Records of declared fields only: claimed keys whose value is stored,
\* a claimed key whose value is refused, and a key for the inner record.
InitLive ==
    /\ Init
    /\ \A i \in 1..Len(src) : src[i].key.bytes \in {"before", "after", "integer"}

\* The decode call is sequential code: whatever step is next is taken.
SpecLive == InitLive /\ [][Next]_vars /\ WF_vars(Next)

\* ------------------------------------------- decoding a record once more

\* The orders the entries of record s can be serialized in.
Permutations(s) ==
    { [i \in 1..Len(s) |-> s[f[i]]] :
        f \in { g \in [1..Len(s) -> 1..Len(s)] :
                  \A i, j \in 1..Len(s) : i # j => g[i] # g[j] } }

\* The key/value pairs the inner visitor has received.
InnerPairs == { src[trace[j].idx] : j \in { k \in DOMAIN trace :
                    trace[k].op = "inner_value" /\ trace[k].res = "ok" } }

\* A second call that goes on with the cursor the first call left behind.
DecodeAgain_same_cursor(p) ==
    /\ pc = "done"
    /\ first.run = 0
    /\ first' = [run |-> 1, src |-> src, result |-> result, capture |-> capture,
                 inner |-> InnerPairs, trace |-> trace]
    /\ src' = p
    /\ pc' = "start"
    /\ phase' = "main"
    /\ capture' = EmptyCapture
    /\ token' = NoToken
    /\ lastKey' = "none"
    /\ got' = 0
    /\ polls' = 0
    /\ value' = NoValue
    /\ result' = NoResult
    /\ trace' = <<>>
    /\ outer' = NoOuter
    /\ UNCHANGED <<failAt, plan, pos, access>>

\* The caller decodes once more, from record p, with a fresh Capture, a
\* fresh cursor and the same inner record type (Outer::deserialize): what the
\* first call came to is kept for comparison.
DecodeAgain(p) ==
    /\ pc = "done"
    /\ first.run = 0
    /\ first' = [run |-> 1, src |-> src, result |-> result, capture |-> capture,
                 inner |-> InnerPairs, trace |-> trace]
    /\ src' = p
    /\ pc' = "start"
    /\ phase' = "main"
    /\ pos' = 0
    /\ access' = "Some"
    /\ capture' = EmptyCapture
    /\ token' = NoToken
    /\ lastKey' = "none"
    /\ got' = 0
    /\ polls' = 0
    /\ value' = NoValue
    /\ result' = NoResult
    /\ trace' = <<>>
    /\ outer' = NoOuter
    /\ UNCHANGED <<failAt, plan>>

\* The record is decoded again with its entries in some order.
Redecode ==
    /\ pc = "done"
    /\ \E p \in Permutations(src) : DecodeAgain(p)

\* The same record is decoded again as it is.
RedecodeSame == DecodeAgain(src)

\* Well-formed records with distinct keys, read by a visitor that returns a
\* value.
InitDistinct ==
    /\ Init
    /\ failAt = NoFail
    /\ ~plan.fails /\ plan.repoll = 0
    /\ \A i, j \in 1..Len(src) : i # j => src[i].key.bytes # src[j].key.bytes

NextAgain ==
    \/ Next
    \/ Redecode

SpecPerm == InitDistinct /\ [][NextAgain]_vars

\* ........................................ a visitor that breaks the protocol

\* What a wrapped cursor may do when it is asked for a value it has produced
\* no key for: MapAccess leaves that to the implementation, which may panic,
\* report an error, or decode whatever comes next in its input.
RawUnpaired == {"raw_panic", "raw_err", "raw_value"}

\* The inner visitor asks for a value with no key pending (before any key,
\* after a value, or after end-of-data): FlattenMapAccess::next_value_seed
\* hands the request to FusedAccess::next_value_seed, which panics when the
\* cursor is gone and forwards to the wrapped cursor otherwise.
InnerValueWithoutKey ==
    /\ pc = "visit" /\ phase = "main"
    /\ lastKey \in {"none", "end"}
    /\ \A j \in DOMAIN trace : trace[j].op # "unpaired_value"
    /\ IF fused_next_value(access) = "panic"
       THEN /\ trace' = Append(trace, Ev("unpaired_value", pos, "expect"))
            /\ result' = Failure("panic", "expect", pos)
            /\ pc' = "done"
       ELSE \E out \in RawUnpaired :
            /\ trace' = Append(trace, Ev("unpaired_value", pos, out))
            /\ result' = IF out = "raw_panic" THEN Failure("panic", "source", pos)
                          ELSE IF out = "raw_err" THEN Failure("source", "unpaired", pos)
                          ELSE result
            /\ pc' = IF out = "raw_value" THEN pc ELSE "done"
    /\ UNCHANGED <<input, outer, phase, pos, access, capture, token, lastKey,
                   got, polls, value>>

NextMisuse ==
    \/ Next
    \/ InnerValueWithoutKey

SpecMisuse == Init /\ [][NextMisuse]_vars

NextShapes ==
    \/ Next
    \/ DeserializeIgnoredAny

SpecShapes == InitShapes /\ [][NextShapes]_vars

\* ............................................... FusedAccess on its own

\* A FusedAccess over the raw cursor, polled by a caller that goes on asking
\* for keys whatever it is answered, `limit + repoll` times; the raw cursor
\* fails, if at all, on a key, and then on every further request for it.
InitFused ==
    /\ src \in Records
    /\ failAt \in { f \in Failures(src) : f.kind \in {"none", "key"} }
    /\ plan \in { p \in Plans(src) : ~p.fails }
    /\ pc = "fused"
    /\ phase = "main"
    /\ pos = 0
    /\ access = "Some"
    /\ capture = EmptyCapture
    /\ token = NoToken
    /\ lastKey = "none"
    /\ got = 0
    /\ polls = 0
    /\ value = NoValue
    /\ result = NoResult
    /\ trace = <<>>
    /\ first = NoRun
    /\ outer = NoOuter

\* FusedAccess::next_key_seed: one call of next_item around the wrapped
\* cursor's next_key_seed.
FusedNextKey ==
    /\ pc = "fused"
    /\ polls < plan.limit + plan.repoll
    /\ LET item == next_item(access, RawNextKey)
       IN  /\ access' = item.access
           /\ pos' = IF item.res = "some" THEN item.idx ELSE pos
           /\ lastKey' = IF item.res = "some" THEN "some"
                          ELSE IF item.res = "none" THEN "end" ELSE lastKey
           /\ trace' = trace
                  \o (IF item.invoked
                      THEN <<Ev("raw_key", item.idx, item.res)>> ELSE <<>>)
                  \o <<Ev("fused_key", item.idx, item.res)>>
    /\ polls' = polls + 1
    /\ UNCHANGED <<input, outer, pc, phase, capture, token, got, value, result>>

NextFused == FusedNextKey

SpecFused == InitFused /\ [][NextFused]_vars

NextTwice ==
    \/ Next
    \/ RedecodeSame

SpecTwice == Init /\ [][NextTwice]_vars

\* -------------------------------------------------------- type invariant

TypeOK ==
    /\ pc \in {"start", "visit", "next_key", "accepted", "done", "returned", "fused"}
    /\ phase \in {"main", "drain"}
    /\ pos \in 0..Len(src)
    /\ access \in {"Some", "None"}
    /\ lastKey \in {"none", "some", "end"}
    /\ token \in OuterFields \cup {NoToken}
    /\ (pc \in {"done", "returned"}) = (result # NoResult)
    /\ (pc = "returned") = (outer # NoOuter)


\* ------------------------------------------------------ reading the trace

\* The entries for which `op` was called with outcome `res`.
At(op, res) ==
    { trace[j].idx : j \in { k \in DOMAIN trace :
                                trace[k].op = op /\ trace[k].res = res } }

\* The same, in call order.
IdxSeq(op, res) ==
    LET evs == SelectSeq(trace, LAMBDA e : e.op = op /\ e.res = res)
    IN  [j \in 1..Len(evs) |-> evs[j].idx]

Where(op, res) == { j \in DOMAIN trace : trace[j].op = op /\ trace[j].res = res }

Claimed == At("claim", "token")
Refused == At("claim", "none")
Stored == At("store", "ok")
StoreCalls == At("store", "ok") \cup At("store", "err")
InnerKeys == At("inner_key", "ok")
InnerVals == At("inner_value", "ok")
InnerValCalls == At("inner_value", "ok") \cup At("inner_value", "err")
IgnoredKeys == At("ignored_key", "ok")
IgnoredVals == At("ignored_value", "ok")
IgnoredValCalls == At("ignored_value", "ok") \cup At("ignored_value", "err")

KeysOf(S) == { src[i].key : i \in S }

Done == pc \in {"done", "returned"}
Returned == Where("inner_return", "ok") \cup Where("inner_return", "err")
\* The inner visitor returned its value ...
InnerReturnedOk == Where("inner_return", "ok") # {}
\* ... after this many entries had been pulled from the source ...
StopPos == IF Returned = {} THEN pos ELSE trace[CHOOSE j \in Returned : TRUE].idx
\* ... having been told end-of-data (or not).
InnerSawEnd ==
    \E j \in Where("fused_key", "none") : \E r \in Returned : j < r

\* Key i names a field the outer record declares / the inner record declares.
IsText(i) == src[i].key.shape \in TextShapes
OuterKey(i) == IsText(i) /\ src[i].key.bytes \in OuterFields
InnerKey(i) == IsText(i) /\ src[i].key.bytes \in InnerFields

\* ------------------------------------------------------------------ C1
\* C1: a key is delivered to at most one destination. A key the capture
\* returned a token for is never handed, key or value, to the inner visitor
\* (nor to the drain's seed); a key without a token never reaches the
\* capture's send_value; and a field the inner record shares with the outer
\* record is absent for the inner record, which uses its default.
C1_OneDestination ==
    /\ \A i \in Claimed :
          i \notin InnerKeys \cup InnerValCalls \cup IgnoredKeys \cup IgnoredValCalls
    /\ \A i \in (1..Len(src)) \ Claimed : i \notin StoreCalls
    /\ result.ok =>
          \A f \in InnerFields \cap OuterFields : result.value[f] = Default

\* A successful decode in which `before`, declared by both records, was
\* claimed and stored while the inner record got its own `integer`.
C1_Witness ==
    /\ Done /\ result.ok
    /\ \E i \in Claimed \cap Stored : src[i].key.bytes = "before"
    /\ capture["before"] = "10.5"
    /\ result.value["before"] = Default
    /\ result.value["integer"] = "10"

\* ------------------------------------------------------------------ C2
\* C2 as stated: after a successful decode the keys the capture stored and the
\* keys the inner record consumed are disjoint and together are all the keys
\* of the source.
C2_PartitionOriginal ==
    (Done /\ result.ok) =>
        /\ KeysOf(Stored) \cap KeysOf(InnerVals) = {}
        /\ KeysOf(Stored) \cup KeysOf(InnerVals) = KeysOf(1..Len(src))

\* How often entry i was delivered to a destination.
Deliveries(i) ==
    Len(SelectSeq(trace, LAMBDA e :
            /\ e.idx = i /\ e.res = "ok"
            /\ e.op \in {"store", "inner_value", "ignored_value"}))

\* C2, amended: after a successful decode every entry went to exactly one of
\* three places: the capture, the inner visitor, or, for entries the capture
\* did not claim that were read after the inner visitor had returned, the
\* drain's discard. Captured keys are disjoint from the others, and when the
\* inner visitor read until end-of-data nothing is discarded, so that the
\* captured and the inner keys alone are all the keys of the source.
C2_Partition ==
    (Done /\ result.ok) =>
        /\ Stored \cup InnerVals \cup IgnoredVals = 1..Len(src)
        /\ \A i \in 1..Len(src) : Deliveries(i) = 1
        /\ KeysOf(Stored) \cap KeysOf(InnerVals \cup IgnoredVals) = {}
        /\ \A i \in IgnoredVals : i > StopPos
        /\ \A i \in InnerVals : i <= StopPos
        /\ InnerSawEnd =>
              /\ IgnoredVals = {}
              /\ KeysOf(Stored) \cup KeysOf(InnerVals) = KeysOf(1..Len(src))

\* A successful decode that used all three places.
C2_Witness ==
    /\ Done /\ result.ok
    /\ Stored # {} /\ InnerVals # {} /\ IgnoredVals # {}

\* ------------------------------------------------------------------ C3
\* C3: when the inner visitor returned its value before end-of-data and the
\* decode succeeds, the adapter has pulled every remaining entry, has offered
\* every remaining text/bytes key to the capture, and every outer-declared
\* key after the point where the inner visitor stopped is claimed and its
\* value is in its slot.
C3_DrainCaptures ==
    (Done /\ result.ok) =>
        /\ pos = Len(src)
        /\ At("raw_key", "some") = 1..Len(src)
        /\ \A i \in (StopPos + 1)..Len(src) :
              /\ IsText(i) => i \in Claimed \cup Refused
              /\ OuterKey(i) =>
                    /\ i \in Claimed /\ i \in Stored
                    /\ capture[src[i].key.bytes] # Empty

\* The inner visitor stopped before end-of-data with an outer key still to
\* come, and that key's value was stored by the drain.
C3_Witness ==
    /\ Done /\ result.ok
    /\ ~InnerSawEnd
    /\ \E i \in (StopPos + 1)..Len(src) :
          /\ OuterKey(i) /\ i \in Stored
          /\ capture[src[i].key.bytes] = src[i].val
          /\ \E j \in 1..StopPos : j \in InnerVals

\* ------------------------------------------------------------------ C4
\* The entries among the first n that the capture gave no token for, in
\* source order.
Unclaimed(n) == SelectSeq([i \in 1..n |-> i], LAMBDA i : i \notin Claimed)

\* C4: the keys the inner visitor has received are, in order, exactly the
\* unclaimed keys among those pulled from the source while it was running:
\* none reordered, repeated or skipped, and no claimed key among them.
C4_InnerOrder == IdxSeq("inner_key", "ok") = Unclaimed(StopPos)

\* The inner visitor received the first and the third key, the second having
\* been claimed in between.
C4_Witness ==
    /\ IdxSeq("inner_key", "ok") = <<1, 3>>
    /\ 2 \in Claimed /\ 2 \in Stored

\* ------------------------------------------------------------------ C5
\* C5 as stated: a record with distinct keys and any permutation of it decode
\* to the same result: the same slots with the same values, and the same set
\* of key/value pairs received by the inner record.
C5_PermutationOriginal ==
    (Done /\ first.run = 1) =>
        /\ result.ok = first.result.ok
        /\ result.ok => (capture = first.capture /\ InnerPairs = first.inner)

\* C5, amended: a record with distinct keys and any permutation of it either
\* both fail or both succeed with the same capture slots; and when the inner
\* visitor reads until end-of-data it receives the same set of key/value
\* pairs and builds the same record. (A visitor that stops early receives
\* only the unclaimed entries placed before its stopping point.)
C5_Permutation ==
    (Done /\ first.run = 1) =>
        /\ result.ok = first.result.ok
        /\ result.ok =>
              /\ capture = first.capture
              /\ InnerSawEnd =>
                    /\ InnerPairs = first.inner
                    /\ result.value = first.result.value

\* Three entries decoded with the outer key first and then with the outer key
\* last, the inner visitor reading to the end both times.
C5_Witness ==
    /\ Done /\ first.run = 1 /\ result.ok
    /\ Len(src) = 3
    /\ OuterKey(3) /\ first.src[1] = src[3]
    /\ InnerSawEnd
    /\ capture[src[3].key.bytes] = src[3].val
    /\ Cardinality(InnerPairs) = 2

\* ------------------------------------------------------------------ C6
\* The raw source failed before it ran the value seed of entry i.
FailedBeforeSeed(i) == failAt.kind = "value" /\ failAt.idx = i

\* C6: claim, then store, per claimed key. A token is followed by the read of
\* that key's value and by send_value for it, with no key pulled and no claim
\* made in between; send_value is only ever called right after the claim that
\* returned its token; and a successful decode has stored every claimed key,
\* once. (A token is left unused only when the source fails before it runs
\* the value seed, which ends the decode.)
C6_ClaimThenStore ==
    /\ \A j \in Where("claim", "token") :
          LET i == trace[j].idx
              n == Len(trace)
          IN  /\ j + 1 <= n /\ trace[j + 1] = Ev("fused_key", i, "some")
              /\ j + 2 <= n => (trace[j + 2].op = "raw_value" /\ trace[j + 2].idx = i)
              /\ j + 3 <= n => (trace[j + 3].op = "store" /\ trace[j + 3].idx = i)
              /\ j + 1 = n => pc = "accepted" /\ token = try_send_key(src[i].key.bytes)
              /\ j + 2 = n => (Done /\ ~result.ok /\ FailedBeforeSeed(i))
    /\ \A j \in Where("store", "ok") \cup Where("store", "err") :
          j > 3 /\
              trace[j - 3] = EvCb("claim", trace[j].idx, "token", src[trace[j].idx].key.bytes)
    /\ pc = "accepted" =>
          (Len(trace) > 1 /\
              trace[Len(trace) - 1] = EvCb("claim", pos, "token", src[pos].key.bytes))
    /\ (Done /\ result.ok) =>
          /\ Stored = Claimed
          /\ Cardinality(Where("store", "ok")) = Cardinality(Claimed)

\* A successful decode that claimed and stored two keys.
C6_Witness ==
    /\ Done /\ result.ok
    /\ Cardinality(Claimed) >= 2
    /\ Stored = Claimed
    /\ Refused # {}

\* ------------------------------------------------------------------ C7
\* C7: once the fused map has answered end-of-data, every later next-key call
\* on it answers end-of-data, and the wrapped cursor is not called again.
C7_Fused ==
    /\ \A j \in Where("fused_key", "none") : \A k \in DOMAIN trace :
          k > j =>
             /\ trace[k].op \notin {"raw_key", "raw_value"}
             /\ trace[k].op = "fused_key" => trace[k].res = "none"
    /\ Cardinality(Where("raw_key", "none")) <= 1
    /\ (access = "None") = (Where("fused_key", "none") # {})

\* End-of-data was answered three times: to the inner visitor, to its second
\* call, and to the drain.
C7_Witness ==
    /\ Done /\ result.ok
    /\ Cardinality(Where("fused_key", "none")) >= 3
    /\ Cardinality(Where("raw_key", "none")) = 1

\* ------------------------------------------------------------------ C8
\* The raw source has reported a failure.
SourceFailed ==
    \/ Where("raw_key", "err") # {}
    \/ \E j \in Where("raw_value", "err") :
          failAt.kind \in {"value", "in_value"} /\ failAt.idx = trace[j].idx

\* C8: a failure of the raw source, on a key or on a value, in the main pass
\* or in the drain, ends the decode call, whose result is that failure, also
\* when the inner visitor had already returned its value.
C8_SourceFailure ==
    /\ SourceFailed => (Done /\ result = SourceError)
    /\ result.tag = "source" => (SourceFailed /\ failAt # NoFail)

\* The source failed during the drain, after the inner visitor's value had
\* been produced, and the decode failed with the source's failure.
C8_Witness ==
    /\ Done /\ SourceFailed
    /\ InnerReturnedOk /\ phase = "drain"
    /\ result = SourceError
    /\ failAt.kind = "key" /\ failAt.idx > 1

\* ------------------------------------------------------------------ C9
\* C9: a failure of send_value ends the decode call with that failure: it is
\* the last call made on the capture and on the source, and the result is
\* not a success.
C9_StoreFailureEnds ==
    \A j \in Where("store", "err") :
        /\ j = Len(trace)
        /\ Done /\ ~result.ok
        /\ result = IF RawNextValue(trace[j].idx) = "ok"
                    THEN Failure("capture", "invalid_type", trace[j].idx)
                    ELSE SourceError

\* send_value failed on a value its slot type rejects, with entries left in
\* the source that were never pulled.
C9_Witness ==
    /\ Done
    /\ result = Failure("capture", "invalid_type", pos)
    /\ Where("store", "err") # {}
    /\ pos < Len(src)
    /\ Stored # {}

\* ------------------------------------------------------------------ C10
\* Key i is declared by neither record.
Unknown(i) == ~OuterKey(i) /\ ~InnerKey(i)

\* Nothing in the input makes the decode fail.
Clean ==
    /\ failAt = NoFail
    /\ ~plan.fails
    /\ \A i \in 1..Len(src) : OuterKey(i) => SlotAccepts(src[i].key.bytes, src[i].val)

\* C10: a key neither record declares is never claimed and never stored; in
\* the main pass it is handed to the inner visitor, in the drain to the seed
\* that discards it; a capture slot only ever holds the value of a key of its
\* own name; and a record that would decode without such keys decodes with
\* them.
C10_UnknownIgnored ==
    /\ \A i \in 1..pos :
          Unknown(i) =>
             /\ i \notin Claimed /\ i \notin StoreCalls
             /\ IF i <= StopPos THEN i \in InnerKeys ELSE i \in IgnoredKeys
    /\ \A f \in OuterFields :
          capture[f] # Empty =>
             \E i \in Stored :
                 OuterKey(i) /\ src[i].key.bytes = f /\ src[i].val = capture[f]
    /\ (Done /\ Clean) => result.ok

\* A successful decode with an undeclared key in the main pass and another in
\* the drain, and no slot filled.
C10_Witness ==
    /\ Done /\ result.ok
    /\ \E i \in InnerVals : Unknown(i)
    /\ \E i \in IgnoredVals : Unknown(i)
    /\ \A f \in OuterFields : capture[f] = Empty

\* ------------------------------------------------------------------ C17
\* The entry whose key the source produced last before trace position j.
KeyBefore(j) ==
    LET ks == { k \in Where("raw_key", "some") : k < j }
    IN  IF ks = {} THEN 0 ELSE trace[CHOOSE k \in ks : \A l \in ks : l <= k].idx

\* The entries whose value went into slot f, and the last of them.
StoredIn(f) == { i \in Stored : try_send_key(src[i].key.bytes) = f }
LastOf(S) == CHOOSE i \in S : \A k \in S : k <= i

\* C17: every value goes where its key went. The value a seed is run on is
\* the value of the key the source produced last; send_value gets it exactly
\* when that key was claimed, with the token of that key, so that a slot
\* holds the value of the last key of its own name that was stored; the
\* inner visitor's value seed gets it exactly when the inner visitor was
\* handed that key, and the drain's likewise. (The inner visitor asks for one
\* value after each key.)
C17_ValueFollowsKey ==
    /\ \A j \in DOMAIN trace :
          trace[j].op \in {"store", "inner_value", "ignored_value"} =>
             /\ j > 1
             /\ trace[j - 1].op = "raw_value" /\ trace[j - 1].idx = trace[j].idx
             /\ trace[j].idx = KeyBefore(j)
             /\ (trace[j].op = "store") = (trace[j].idx \in Claimed)
             /\ (trace[j].op = "inner_value") = (trace[j].idx \in InnerKeys)
             /\ (trace[j].op = "ignored_value") = (trace[j].idx \in IgnoredKeys)
    /\ pc = "accepted" =>
          (token # NoToken /\ token = try_send_key(src[pos].key.bytes))
    /\ \A f \in OuterFields :
          capture[f] = IF StoredIn(f) = {} THEN Empty
                       ELSE src[LastOf(StoredIn(f))].val

\* A decode in which a claimed key's value was stored under its token, the
\* next key's value went to the inner visitor and a third to the drain.
C17_Witness ==
    /\ Done /\ result.ok
    /\ \E i \in Stored, j \in InnerVals, k \in IgnoredVals : i < j /\ j < k
    /\ capture["before"] = "10.5"

\* ------------------------------------------------------------------ C18
\* C18: when the inner visitor returns a failure, the decode call returns
\* that failure at once: the visitor's return is the last thing that
\* happened, the source is where the visitor left it, and the drain never
\* asked for a key or a value.
C18_InnerFailureNoDrain ==
    \A j \in Where("inner_return", "err") :
        /\ j = Len(trace)
        /\ Done /\ phase = "main"
        /\ result = Failure("inner", "visitor", got)
        /\ pos = trace[j].idx
        /\ IgnoredKeys = {} /\ IgnoredValCalls = {}

\* The inner visitor failed with an outer field's entry still unread in the
\* source, which a drain would have claimed.
C18_Witness ==
    /\ Done /\ ~result.ok
    /\ Where("inner_return", "err") # {}
    /\ \E i \in (pos + 1)..Len(src) : OuterKey(i)
    /\ InnerVals # {}

\* ------------------------------------------------------------------ C11
\* The entries whose key is the name of field f.
KeyNamed(f) == { i \in 1..Len(src) : IsText(i) /\ src[i].key.bytes = f }

\* C11: after a decode call that succeeded, the slot of a declared outer
\* field is empty exactly when no key of the source names the field; with
\* defaults declared, Outer::deserialize succeeds, an absent field gets its
\* default and a present one its slot; without defaults it fails with
\* missing-field for an absent field, and succeeds with the slots when every
\* field is present.
C11_EmptyIffAbsent ==
    /\ (Done /\ result.ok) =>
          \A f \in OuterFields : (capture[f] = Empty) = (KeyNamed(f) = {})
    /\ (pc = "returned" /\ result.ok /\ outer.rule = "default") =>
          /\ outer.ok
          /\ \A f \in OuterFields :
                outer.fields[f] = IF KeyNamed(f) = {} THEN Default ELSE capture[f]
    /\ (pc = "returned" /\ result.ok /\ outer.rule = "required") =>
          /\ outer.ok = (\A f \in OuterFields : KeyNamed(f) # {})
          /\ outer.ok => outer.fields = capture
          /\ ~outer.ok => (outer.why \in OuterFields /\ KeyNamed(outer.why) = {})

\* A successful decode of a record that names `before` and not `after`, then
\* assembled with defaults ...
C11_Witness ==
    /\ pc = "returned" /\ result.ok /\ outer.ok
    /\ outer.rule = "default"
    /\ KeyNamed("before") # {} /\ KeyNamed("after") = {}
    /\ outer.fields["before"] = "10.5" /\ outer.fields["after"] = Default

\* ... and the same kind of record assembled without: the missing field is
\* reported by name.
C11_WitnessRequired ==
    /\ pc = "returned" /\ result.ok /\ ~outer.ok
    /\ outer.rule = "required" /\ outer.why = "after"
    /\ KeyNamed("before") # {}

C12_WitnessFailure ==
    /\ Done /\ first.run = 1 /\ src = first.src
    /\ result = Failure("capture", "invalid_type", pos)
    /\ Stored # {}

\* ------------------------------------------------------------------ C14
\* The value requests made with no key pending.
Unpaired == { j \in DOMAIN trace : trace[j].op = "unpaired_value" }
\* End-of-data had been reported to the visitor before trace position j.
EndBefore(j) == \E k \in Where("fused_key", "none") : k < j

\* C14 as stated: every value request with no key pending is a panic of the
\* wrapper: no failure is returned and no value delivered.
C14_UnpairedPanicsOriginal ==
    \A j \in Unpaired :
        /\ trace[j].res = "expect"
        /\ Done /\ result = Failure("panic", "expect", trace[j].idx)

\* C14: a value request after end-of-data was reported is a panic of the
\* wrapper (`expect`), which returns no failure, delivers no value and does
\* not touch the wrapped cursor; a value request with no key pending while
\* the cursor is live is not checked by the wrapper: it is forwarded to the
\* wrapped cursor, and what happens is what that cursor does.
C14_UnpairedPanics ==
    \A j \in Unpaired :
        IF EndBefore(j)
        THEN /\ trace[j].res = "expect"
             /\ j = Len(trace)
             /\ Done /\ result = Failure("panic", "expect", trace[j].idx)
             /\ outer = NoOuter
        ELSE /\ trace[j].res \in RawUnpaired
             /\ trace[j].res = "raw_err" =>
                   (Done /\ result = Failure("source", "unpaired", trace[j].idx))
             /\ trace[j].res = "raw_value" => result.tag # "panic"

\* The visitor read an entry, was told end-of-data, and asked for a value.
C14_Witness ==
    /\ Done /\ result = Failure("panic", "expect", pos)
    /\ \E j \in Unpaired : EndBefore(j)
    /\ InnerVals # {}

\* The visitor asked for a value before any key, and the wrapped cursor
\* answered with a failure, which the decode call returned.
C14_WitnessLive ==
    /\ Done /\ result = Failure("source", "unpaired", 0)
    /\ \E j \in Unpaired : ~EndBefore(j) /\ trace[j].res = "raw_err"
    /\ Len(src) > 0

\* ------------------------------------------------------------------ C13
\* The keys handed to a key seed, the inner visitor's or the drain's.
SeedKeys == Where("inner_key", "ok") \cup Where("ignored_key", "ok")

\* C13: a key the capture did not take reaches the caller's key seed in the
\* shape the source presented it in: the visitor callback the seed receives
\* is the callback the source made on the FlattenKeySeed, for every shape.
C13_ShapePreserved ==
    \A j \in SeedKeys : trace[j].cb = src[trace[j].idx].key.shape

\* What the code does: every shape but option-none arrives as the source
\* presented it; a key presented with visit_none arrives as visit_unit.
C13_ShapePreservedButNone ==
    \A j \in SeedKeys :
        trace[j].cb = IF src[trace[j].idx].key.shape = "none" THEN "unit"
                      ELSE src[trace[j].idx].key.shape

\* The source presented a key with visit_none, and the inner visitor's key
\* seed, asking for an identifier, received visit_unit.
C13_Witness ==
    /\ Done /\ result.ok
    /\ plan.keyEntry = "identifier"
    /\ \E j \in Where("inner_key", "ok") :
          src[trace[j].idx].key.shape = "none" /\ trace[j].cb = "unit"

\* ------------------------------------------------------------------ C15
\* C15: each forwarding deserializer (option-some, newtype, enum, byte
\* buffer) answers every decode entry point, the generic one, every concrete
\* one and ignored_any, with its own visitor callback; a key that reaches a
\* seed through one of them arrives with that callback whatever the seed
\* asked for, and the deserializer adds no failure: a decode that nothing
\* else makes fail succeeds.
C15_AdapterForwards ==
    /\ \A a \in Adapters, e \in EntryPoints : Adapter_deserialize(a, e) = a
    /\ \A j \in SeedKeys :
          src[trace[j].idx].key.shape \in Adapters =>
              trace[j].cb = src[trace[j].idx].key.shape
    /\ (Done /\ Clean) => result.ok

\* A key presented with visit_some went to a seed that asked for
\* ignored_any, which received visit_some, and the decode succeeded.
C15_Witness ==
    /\ Done /\ result.ok
    /\ plan.keyEntry = "ignored_any"
    /\ \E j \in Where("inner_key", "ok") :
          src[trace[j].idx].key.shape = "some" /\ trace[j].cb = "some"

\* ------------------------------------------------------------------ C16
\* The calls of try_send_key.
ClaimCalls == Where("claim", "token") \cup Where("claim", "none")

\* C16: only the bytes of a key decide whether it is claimed. Every text or
\* binary key the source produced, transient, owned or borrowed, was passed
\* to try_send_key as its bytes, the answer is the one try_send_key gives for
\* those bytes, and two such keys with the same bytes got the same answer.
C16_BytesDecide ==
    /\ \A j \in ClaimCalls :
          /\ trace[j].cb = src[trace[j].idx].key.bytes
          /\ (trace[j].res = "token") = (try_send_key(trace[j].cb) # NoToken)
    /\ \A i \in 1..pos : IsText(i) => i \in Claimed \cup Refused
    /\ \A i, k \in 1..pos :
          (IsText(i) /\ IsText(k) /\ src[i].key.bytes = src[k].key.bytes) =>
              ((i \in Claimed) = (k \in Claimed))

\* A borrowed binary key and a transient text key with the same bytes were
\* both claimed and stored.
C16_Witness ==
    /\ Done /\ result.ok
    /\ \E i, k \in Stored :
          /\ src[i].key.shape = "borrowed_bytes" /\ src[k].key.shape = "str"
          /\ src[i].key.bytes = src[k].key.bytes

\* ------------------------------------------------------------------ C19
\* How often try_send_key was called for entry i.
ClaimCount(i) == Cardinality({ j \in ClaimCalls : trace[j].idx = i })

\* C19: try_send_key is called once for every text or binary key the source
\* produced, in the main pass and in the drain, and never for a key of any
\* other shape, which goes to the inner visitor's key seed (in the drain: to
\* the seed that discards it) and never to send_value.
C19_ClaimOncePerTextKey ==
    \A i \in 1..pos :
        IF src[i].key.shape \in
              {"str", "string", "borrowed_str", "bytes", "byte_buf", "borrowed_bytes"}
        THEN ClaimCount(i) = 1
        ELSE /\ ClaimCount(i) = 0
             /\ i \in InnerKeys \cup IgnoredKeys
             /\ i \notin StoreCalls

\* A key presented as a sequence went to the inner visitor unasked, and text
\* keys were offered to the capture in the main pass and in the drain.
C19_Witness ==
    /\ Done /\ result.ok
    /\ \E i \in InnerKeys : src[i].key.shape = "seq" /\ ClaimCount(i) = 0
    /\ \E i \in Claimed, k \in IgnoredKeys : i < k /\ IsText(k)

\* ------------------------------------------------------------------ C20
\* C20: of all decode entry points of FlattenDeserializer only ignored_any
\* bypasses the capture. An inner record that asks for ignored_any is
\* answered by the source alone: no key is offered to the capture, nothing is
\* stored, and every slot is empty when the call returns, whatever keys the
\* record has. Every other entry point reads the record as a map through the
\* capture: when the call succeeds every entry was pulled, every text or
\* binary key offered, and the slots of the fields named are filled.
C20_IgnoredAnyBypasses ==
    IF plan.entry = "ignored_any"
    THEN /\ \A j \in DOMAIN trace : trace[j].op = "raw_ignored_any"
         /\ capture = EmptyCapture /\ pos = 0
         /\ Done => Len(trace) = 1
    ELSE /\ \A j \in DOMAIN trace : trace[j].op # "raw_ignored_any"
         /\ (Done /\ result.ok) =>
               /\ pos = Len(src)
               /\ \A i \in 1..Len(src) : IsText(i) => ClaimCount(i) = 1
               /\ \A f \in OuterFields : (capture[f] = Empty) = (KeyNamed(f) = {})

\* An inner record asked for ignored_any over a record with an outer key:
\* the call succeeded and the slot is empty.
C20_Witness ==
    /\ Done /\ result.ok
    /\ plan.entry = "ignored_any"
    /\ KeyNamed("before") # {}
    /\ capture = EmptyCapture

\* An inner record asked for a bool over the same kind of record: the key
\* was claimed and stored.
C20_WitnessOther ==
    /\ Done /\ result.ok
    /\ plan.entry = "bool"
    /\ KeyNamed("before") # {}
    /\ capture["before"] = "10.5"

\* ------------------------------------------------------------------ C21
\* The calls made on the raw cursor.
RawCalls == { j \in DOMAIN trace : trace[j].op \in {"raw_key", "raw_value"} }

\* C21: when the decode call returns a value, the raw cursor was advanced
\* until it reported end-of-data, which it did once, as the last call made on
\* it: over the inner visitor's pass and the drain it was never asked for a
\* key again. When the inner visitor had read to the end itself, the drain
\* made no call on the raw cursor.
C21_AdvancedToEndOnce ==
    (Done /\ result.ok) =>
        /\ pos = Len(src)
        /\ Cardinality(Where("raw_key", "some")) = Len(src)
        /\ Cardinality(Where("raw_key", "none")) = 1
        /\ \A j \in Where("raw_key", "none") : \A k \in RawCalls : k <= j
        /\ InnerSawEnd => \A r \in Returned : \A k \in RawCalls : k < r

\* The inner visitor read a record to its end and asked once more, then the
\* drain asked too: the raw cursor reported end-of-data once and was not
\* called after the visitor returned.
C21_Witness ==
    /\ Done /\ result.ok
    /\ InnerSawEnd /\ Len(src) >= 2
    /\ Cardinality(Where("fused_key", "none")) >= 3
    /\ \E r \in Returned : \E j \in Where("fused_key", "none") : j > r

\* ------------------------------------------------------------------ C22
\* The answers of the fused cursor, and whether the wrapped cursor had
\* reported end-of-data before trace position j.
FusedCalls == { j \in DOMAIN trace : trace[j].op = "fused_key" }
RawEndBefore(j) == \E k \in Where("raw_key", "none") : k < j

\* C22: while it is live the fused cursor is transparent. Each of its
\* answers given before the wrapped cursor has reported end-of-data is the
\* answer of one call of the wrapped cursor, made for it and for no other
\* answer; the cursor is dropped exactly when the wrapped cursor has reported
\* end-of-data, so after an item or a failure it is still there and the next
\* request reaches the wrapped cursor again.
C22_LiveTransparent ==
    /\ \A j \in FusedCalls :
          ~RawEndBefore(j - 1) =>
             /\ j > 1
             /\ trace[j - 1] = Ev("raw_key", trace[j].idx, trace[j].res)
             /\ j > 2 => trace[j - 2].op # "raw_key"
    /\ \A k \in DOMAIN trace :
          trace[k].op = "raw_key" => (k < Len(trace) /\ trace[k + 1].op = "fused_key")
    /\ (access = "None") = (Where("raw_key", "none") # {})
    /\ Cardinality(Where("raw_key", "err")) = Cardinality(Where("fused_key", "err"))

\* The wrapped cursor produced an item, then failed, and was asked again on
\* the next request, failing again; the fused cursor is still live.
C22_Witness ==
    /\ pc = "fused"
    /\ Where("raw_key", "some") # {}
    /\ Cardinality(Where("raw_key", "err")) >= 2
    /\ access = "Some"

\* The wrapped cursor produced every item and reported end-of-data, and the
\* fused cursor, asked again, answered without it.
C22_WitnessEnd ==
    /\ pc = "fused"
    /\ Len(src) >= 2 /\ pos = Len(src)
    /\ access = "None"
    /\ Cardinality(Where("fused_key", "none")) > Cardinality(Where("raw_key", "none"))

\* ------------------------------------------------------------------ C23
\* The keys the drain was answered with, end-of-data included.
DrainAnswers ==
    { j \in FusedCalls : \E r \in Where("inner_return", "ok") : r < j }

\* C23: the decode call returns. Every turn of the next-key loop takes one
\* key from the source, so the keys taken are the entries produced and never
\* more than the record has; the loop, however many keys in a row are
\* claimed, leads to a key or end-of-data handed to the visitor (or to the
\* end of the call on a failure); the drain is answered at
\* most once per entry the inner visitor left, and once more with
\* end-of-data; and Outer::deserialize returns.
C23_Terminates ==
    /\ [](/\ Cardinality(Where("raw_key", "some")) = pos
          /\ pos <= Len(src)
          /\ Cardinality(DrainAnswers) <= (Len(src) - StopPos) + 1)
    /\ (pc \in {"next_key", "accepted"}) ~> (pc \in {"visit", "done", "returned"})
    /\ <>(pc = "returned")

\* A decode that returned after the loop had claimed two keys in a row
\* before handing the inner visitor a third, and after a drain over the rest.
C23_Witness ==
    /\ pc = "returned" /\ result.ok
    /\ \E i \in Claimed : (i + 1) \in Claimed /\ (i + 2) \in InnerKeys
    /\ DrainAnswers # {}

============================================================================
